---- MODULE Spec2Model ----
(***************************************************************************)
(* A model of pydoc_markdown/contrib/loaders/python.py: the Parser that    *)
(* turns a lib2to3 concrete syntax tree into reflection objects, and the   *)
(* ListScanner it uses to walk sibling lists.                              *)
(*                                                                         *)
(* Text is modelled by what the code does with it: a Python str is a       *)
(* sequence of characters (one-character strings), so that it can be       *)
(* split, stripped, scanned and concatenated as the code does. ToStr turns *)
(* such a sequence into a TLA+ string where a formula names a text.        *)
(***************************************************************************)
EXTENDS Integers, Sequences, FiniteSets, TLC

VARIABLES
  code,        \* the source handed to parse_file, as its statements
  filename,    \* parse_file's filename
  module_name, \* parse_file's module_name, a str or None
  self_filename, \* Parser.filename of the Parser that parse_file made
  module,      \* what parse_file returned (or the exception it raised)
  parameters,  \* the `parameters` node handed to Parser.parse_parameters
  args,        \* what parse_parameters returned (or the exception it raised)
  _list,       \* ListScanner._list
  _index,      \* ListScanner._index
  call,        \* the last ListScanner call and its outcome
  it,          \* the state of one safe_iter(auto_advance=False) generator
  parsers,     \* Parser.filename of each Parser that is kept between parses
  calls        \* the parses made so far: their arguments and what they returned

fileVars == <<code, filename, module_name, self_filename, module>>
paramVars == <<parameters, args>>
scanVars == <<_list, _index, call, it>>
callVars == <<parsers, calls>>
vars == <<code, filename, module_name, self_filename, module,
          parameters, args, _list, _index, call, it, parsers, calls>>

(***************************************************************************)
(* Python values                                                           *)
(***************************************************************************)
None == [none |-> TRUE]

\* reflection.Expression: a value object wrapping source text
Expression(text) == [text |-> text]

\* No exception was raised
NoExc == ""

(***************************************************************************)
(* Characters and strings                                                  *)
(***************************************************************************)
NL == "\n"
SP == " "

RECURSIVE ToStr(_)
\* ''.join(chars)
ToStr(chars) == IF chars = <<>> THEN "" ELSE Head(chars) \o ToStr(Tail(chars))

\* str.strip() and re's \s: the whitespace characters
IsSpace(c) == c \in {SP, NL, "\t"}

RECURSIVE lstrip(_)
\* s.lstrip()
lstrip(s) == IF s # <<>> /\ IsSpace(Head(s)) THEN lstrip(Tail(s)) ELSE s

RECURSIVE rstrip(_)
\* s.rstrip()
rstrip(s) ==
  IF s # <<>> /\ IsSpace(s[Len(s)]) THEN rstrip(SubSeq(s, 1, Len(s) - 1)) ELSE s

\* s.strip()
strip(s) == lstrip(rstrip(s))

\* s.startswith(p)
startswith(s, p) == Len(s) >= Len(p) /\ SubSeq(s, 1, Len(p)) = p

\* s[n:]
drop(s, n) == SubSeq(s, n + 1, Len(s))

\* s.count(c)
count(s, c) == Cardinality({i \in 1..Len(s) : s[i] = c})

RECURSIVE split(_, _)
\* s.split(c): the pieces between the occurrences of the character c
split(s, c) ==
  IF \E i \in 1..Len(s) : s[i] = c
    THEN LET i == CHOOSE i \in 1..Len(s) : s[i] = c /\ \A j \in 1..(i - 1) : s[j] # c
         IN  <<SubSeq(s, 1, i - 1)>> \o split(drop(s, i), c)
    ELSE <<s>>

RECURSIVE join(_, _)
\* c.join(lines)
join(lines, c) ==
  IF lines = <<>> THEN <<>>
  ELSE IF Len(lines) = 1 THEN lines[1]
  ELSE lines[1] \o <<c>> \o join(Tail(lines), c)

\* reversed(seq)
reversed(seq) == [i \in 1..Len(seq) |-> seq[Len(seq) + 1 - i]]

\* A Python str where the code may hold None instead (a docstring)
Str(chars) == [str |-> chars]

(***************************************************************************)
(* lib2to3.pytree: Leaf and Node                                           *)
(***************************************************************************)
\* A leaf on line `lineno` of the file
LeafAt(type, value, prefix, lineno) ==
  [type |-> type, value |-> value, prefix |-> prefix, children |-> <<>>,
   isNode |-> FALSE, lineno |-> lineno]

\* A leaf on the first line
Leaf(type, value, prefix) == LeafAt(type, value, prefix, 1)

\* Node.prefix and Node.get_lineno() are those of the node's first leaf
Node(type, children) ==
  [type |-> type, value |-> <<>>,
   prefix |-> IF children = <<>> THEN <<>> ELSE children[1].prefix,
   children |-> children, isNode |-> TRUE,
   lineno |-> IF children = <<>> THEN 0 ELSE children[1].lineno]

RECURSIVE generator(_, _)
\* Parser.nodes_to_string's generator, from the i-th (1-based) node on:
\* every prefix but the first one, then the node's own text.
generator(nodes, i) ==
  IF i > Len(nodes) THEN <<>>
  ELSE LET node == nodes[i] IN
         (IF i # 1 THEN node.prefix ELSE <<>>)
         \o (IF node.isNode THEN generator(node.children, 1) ELSE node.value)
         \o generator(nodes, i + 1)

nodes_to_string(nodes) == generator(nodes, 1)

(***************************************************************************)
(* ListScanner (0-based index, as in the code)                             *)
(***************************************************************************)
\* ListScanner.__bool__
scanner_bool(lst, index) == index < Len(lst)

\* ListScanner.current: self._list[self._index]; IndexError past the end.
\* A negative index counts from the end of the list, as in Python.
current(lst, index) ==
  IF index >= 0 /\ index < Len(lst) THEN [exc |-> NoExc, value |-> lst[index + 1]]
  ELSE IF index < 0 /\ -index <= Len(lst)
         THEN [exc |-> NoExc, value |-> lst[Len(lst) + index + 1]]
         ELSE [exc |-> "IndexError", value |-> None]

\* ListScanner.can_advance
can_advance(lst, index) == index < Len(lst) - 1

\* advance with the index moved only when there is a next element
advance_stuck(lst, index, expect) ==
  LET c == current(lst, index + 1) IN
    [index |-> IF c.exc = NoExc THEN index + 1 ELSE index,
     exc |-> IF expect THEN c.exc ELSE NoExc,
     value |-> c.value]

\* ListScanner.advance: the index moves first; the IndexError of `current` is
\* swallowed unless expect is set.
advance(lst, index, expect) ==
  LET c == current(lst, index + 1) IN
    [index |-> index + 1,
     exc |-> IF expect THEN c.exc ELSE NoExc,
     value |-> c.value]

(***************************************************************************)
(* Positions in the tree: a node is reached from the root by a path of     *)
(* child numbers, which gives it its parent and its previous sibling       *)
(***************************************************************************)
RECURSIVE At(_, _)
\* The node of the tree root at path
At(root, path) ==
  IF path = <<>> THEN root ELSE At(root.children[Head(path)], Tail(path))

\* node.parent
parent_path(path) == SubSeq(path, 1, Len(path) - 1)

\* node.prev_sibling is not None
has_prev_sibling(path) == path # <<>> /\ path[Len(path)] > 1

\* node.prev_sibling
prev_sibling_path(path) == [path EXCEPT ![Len(path)] = @ - 1]

RECURSIVE climb(_, _)
\* The first loop of get_most_recent_prefix: up through the parents while the
\* node is a first child without prefix; top when the root was passed
climb(root, path) ==
  IF ~has_prev_sibling(path) /\ At(root, path).prefix = <<>>
    THEN IF path = <<>> THEN [top |-> TRUE, path |-> path]
         ELSE climb(root, parent_path(path))
    ELSE [top |-> FALSE, path |-> path]

RECURSIVE last_leaf(_)
\* The second loop of get_most_recent_prefix: down the last children
last_leaf(node) ==
  IF node.isNode /\ node.children # <<>>
    THEN last_leaf(node.children[Len(node.children)])
    ELSE node

\* Parser.get_most_recent_prefix(node)
get_most_recent_prefix(root, path) ==
  IF At(root, path).prefix # <<>> THEN At(root, path).prefix
  ELSE LET c == climb(root, path) IN
         IF c.top THEN <<>>
         ELSE IF At(root, c.path).prefix # <<>> THEN At(root, c.path).prefix
         ELSE last_leaf(At(root, prev_sibling_path(c.path))).prefix

(***************************************************************************)
(* Docstrings                                                              *)
(***************************************************************************)
RECURSIVE indent_of(_)
\* The leading blanks and tabs of a line
indent_of(line) ==
  IF line # <<>> /\ Head(line) \in {SP, "\t"}
    THEN <<Head(line)>> \o indent_of(Tail(line))
    ELSE <<>>

RECURSIVE common_prefix(_, _)
\* The longest common prefix of two strings
common_prefix(a, b) ==
  IF a # <<>> /\ b # <<>> /\ Head(a) = Head(b)
    THEN <<Head(a)>> \o common_prefix(Tail(a), Tail(b))
    ELSE <<>>

RECURSIVE margin_of(_)
\* The margin textwrap.dedent finds: the longest common prefix of the indents
margin_of(indents) ==
  IF Len(indents) = 1 THEN indents[1]
  ELSE common_prefix(indents[1], margin_of(Tail(indents)))

\* textwrap.dedent(text): lines of blanks are emptied, and the common margin
\* of the lines with content is removed
dedent(text) ==
  LET raw == split(text, NL)
      lines == [i \in 1..Len(raw) |-> IF indent_of(raw[i]) = raw[i] THEN <<>> ELSE raw[i]]
      content == SelectSeq(lines, LAMBDA l : l # <<>>)
      margin == IF content = <<>> THEN <<>>
                ELSE margin_of([i \in 1..Len(content) |-> indent_of(content[i])])
  IN  join([i \in 1..Len(lines) |->
              IF margin # <<>> /\ startswith(lines[i], margin)
                THEN drop(lines[i], Len(margin)) ELSE lines[i]], NL)

\* dedent_docstring(s)
dedent_docstring(s) ==
  LET lines == split(s, NL)
      rest == split(dedent(join(Tail(lines), NL)), NL)
  IN  strip(join(<<strip(lines[1])>> \o rest, NL))

\* The `#` branch of prepare_docstring: the marker `#:` or `#` and the blanks
\* after it are cut from every line
strip_markers(s) ==
  LET raw == split(s, NL)
      cut(line) == IF startswith(line, <<"#", ":">>) THEN drop(line, 2) ELSE drop(line, 1)
  IN  strip(join([i \in 1..Len(raw) |-> lstrip(cut(strip(raw[i])))], NL))

\* s[n:-n]
unquote(s, n) == SubSeq(s, n + 1, Len(s) - n)

\* Parser.prepare_docstring(s)
prepare_docstring(text) ==
  LET s == strip(text) IN
    IF startswith(s, <<"#">>) THEN Str(strip_markers(s))
    ELSE IF startswith(s, <<"\"", "\"", "\"">>) \/ startswith(s, <<"'", "'", "'">>)
      THEN Str(strip(dedent_docstring(unquote(s, 3))))
    ELSE IF startswith(s, <<"\"">>) \/ startswith(s, <<"'">>)
      THEN Str(strip(dedent_docstring(unquote(s, 1))))
    ELSE None

\* doc_type = None
NoDocType == "None"

RECURSIVE scan_lines(_, _, _, _)
\* The loop of get_hashtag_docstring_from_prefix over rlines, the lines of
\* the prefix last first, from the i-th on: the comment lines kept (nearest
\* first) and the doc_type found
scan_lines(rlines, i, lines, doc_type) ==
  IF i > Len(rlines) THEN [lines |-> lines, doc_type |-> doc_type]
  ELSE LET line == strip(rlines[i]) IN
         IF lines # <<>> /\ ~startswith(line, <<"#">>)
           THEN [lines |-> lines, doc_type |-> doc_type]
           ELSE scan_lines(rlines, i + 1,
                           IF lines # <<>> \/ line # <<>> THEN Append(lines, line) ELSE lines,
                           IF doc_type = NoDocType /\ startswith(line, <<"#", ":">>)
                             THEN "statement"
                           ELSE IF doc_type = NoDocType /\ startswith(line, <<"#">>)
                             THEN "block"
                           ELSE doc_type)

\* get_hashtag_docstring_from_prefix applied to the prefix found
hashtag_docstring(prefix) ==
  LET r == scan_lines(reversed(split(prefix, NL)), 1, <<>>, NoDocType) IN
    [docstring |-> prepare_docstring(join(reversed(r.lines), NL)),
     doc_type |-> r.doc_type]

\* Parser.get_hashtag_docstring_from_prefix(node)
get_hashtag_docstring_from_prefix(root, path) ==
  hashtag_docstring(get_most_recent_prefix(root, path))

\* re.match(r'\s*', prefix[::-1]).group(0): the whitespace the prefix ends with
trailing_ws(prefix) == drop(prefix, Len(rstrip(prefix)))

\* get_statement_docstring taking the comment across blank lines as well
get_statement_docstring_any(root, path) ==
  LET ws == trailing_ws(get_most_recent_prefix(root, path))
      statement(d) == IF d.doc_type = "statement" THEN d.docstring ELSE None
  IN  IF count(ws, NL) >= 1
        THEN statement(get_hashtag_docstring_from_prefix(root, path))
        ELSE None

\* Parser.get_statement_docstring(node)
get_statement_docstring(root, path) ==
  LET ws == trailing_ws(get_most_recent_prefix(root, path))
      statement(d) == IF d.doc_type = "statement" THEN d.docstring ELSE None
  IN  IF count(ws, NL) = 1
        THEN statement(get_hashtag_docstring_from_prefix(root, path))
        ELSE None

\* get_docstring_from_first_node taking the comment whatever its doc_type
get_docstring_from_first_node_any(root, path) ==
  LET parent == At(root, path)
      nodes == {i \in 1..Len(parent.children) : parent.children[i].isNode}
      first == CHOOSE i \in nodes : \A j \in nodes : i <= j
      node == parent.children[first]
  IN  IF nodes = {} THEN None
      ELSE IF node.type = "simple_stmt" /\ node.children[1].type = "STRING"
        THEN prepare_docstring(node.children[1].value)
      ELSE get_hashtag_docstring_from_prefix(root, Append(path, first)).docstring

\* Parser.get_docstring_from_first_node(parent): parent is the node at path
get_docstring_from_first_node(root, path) ==
  LET parent == At(root, path)
      nodes == {i \in 1..Len(parent.children) : parent.children[i].isNode}
      first == CHOOSE i \in nodes : \A j \in nodes : i <= j
      node == parent.children[first]
      block(d) == IF d.doc_type = "block" THEN d.docstring ELSE None
  IN  IF nodes = {} THEN None
      ELSE IF node.type = "simple_stmt" /\ node.children[1].type = "STRING"
        THEN prepare_docstring(node.children[1].value)
      ELSE block(get_hashtag_docstring_from_prefix(root, Append(path, first)))

\* No call has been made on the scanner
NoCall == [op |-> "none", from |-> 0, expect |-> FALSE, exc |-> NoExc, value |-> None]

\* A generator object of safe_iter that has not been started
NoIter == [pc |-> "idle", auto_advance |-> FALSE, index |-> 0, at |-> 0, yields |-> 0]

(***************************************************************************)
(* Parser.parse_argument and Parser.parse_parameters                       *)
(***************************************************************************)
\* reflection.Argument(name, annotation, default, type)
Argument(name, annotation, default, type) ==
  [name |-> name, annotation |-> annotation, default |-> default, type |-> type]

\* find(predicate, iterable) with the predicate `x.type == type`
find(type, children) ==
  IF \E i \in 1..Len(children) : children[i].type = type
    THEN children[CHOOSE i \in 1..Len(children) :
                    /\ children[i].type = type
                    /\ \A j \in 1..(i - 1) : children[j].type # type]
    ELSE None

\* list.index(node), 0-based
list_index(children, node) ==
  (CHOOSE i \in 1..Len(children) :
     /\ children[i] = node
     /\ \A j \in 1..(i - 1) : children[j] # node) - 1

\* nodes_to_string([node]); None has no prefix or value to read
node_text(node) ==
  IF node = None THEN [exc |-> "AttributeError", text |-> <<>>]
  ELSE [exc |-> NoExc, text |-> nodes_to_string(<<node>>)]

\* parse_annotated_name with the annotation read one element early (the
\* second advance of the inner scanner left out)
parse_annotated_name_early(node) ==
  IF node = None THEN [exc |-> "AttributeError", name |-> <<>>, annotation |-> None]
  ELSE IF node.type = "tname"
    THEN LET a1 == advance(node.children, 0, FALSE)
             t == node_text(a1.value)
         IN  [exc |-> t.exc, name |-> node.children[1].value,
              annotation |-> Expression(t.text)]
    ELSE [exc |-> NoExc, name |-> node.value, annotation |-> None]

\* parse_argument.parse_annotated_name: (name, annotation) of a `tname` node
\* or of a plain leaf
parse_annotated_name(node) ==
  IF node = None THEN [exc |-> "AttributeError", name |-> <<>>, annotation |-> None]
  ELSE IF node.type = "tname"
    THEN LET c0 == current(node.children, 0)
             a1 == advance(node.children, 0, FALSE)
             a2 == advance(node.children, a1.index, FALSE)
             t == node_text(a2.value)
         IN  IF c0.exc # NoExc
               THEN [exc |-> c0.exc, name |-> <<>>, annotation |-> None]
             ELSE IF a1.value = None
               THEN [exc |-> "AttributeError", name |-> <<>>, annotation |-> None]
             ELSE IF a1.value.type # "COLON"
               THEN [exc |-> "AssertionError", name |-> <<>>, annotation |-> None]
             ELSE [exc |-> t.exc, name |-> c0.value.value,
                   annotation |-> Expression(t.text)]
    ELSE IF node.isNode
      THEN [exc |-> "AttributeError", name |-> <<>>, annotation |-> None]
      ELSE [exc |-> NoExc, name |-> node.value, annotation |-> None]

\* Parser.parse_argument(node, argtype, scanner): the scanner (lst, index)
\* stands at node; returns the Argument and the scanner's new index
parse_argument(node, argtype, lst, index) ==
  LET a1 == advance(lst, index, FALSE)
      hasDefault == a1.value # None /\ a1.value.type = "EQUAL"
      a2 == advance(lst, a1.index, FALSE)
      a3 == advance(lst, a2.index, FALSE)
      with_default(n, d) ==
        IF d.exc # NoExc
          THEN [exc |-> d.exc, arg |-> None, index |-> a2.index]
          ELSE [exc |-> NoExc,
                arg |-> Argument(n.name, n.annotation, Expression(d.text), argtype),
                index |-> a3.index]
      argument(n) ==
        IF n.exc # NoExc
          THEN [exc |-> n.exc, arg |-> None, index |-> index]
        ELSE IF hasDefault
          THEN with_default(n, node_text(a2.value))
        ELSE [exc |-> NoExc,
              arg |-> Argument(n.name, n.annotation, None, argtype),
              index |-> a1.index]
  IN  argument(parse_annotated_name(node))

\* One pass of the body of the loop of parse_parameters, with the scanner
\* over the typedargslist children at index: the Arguments appended, the
\* scanner's new index and the default kind now active
arglist_step(children, index, argtype) ==
  LET node == current(children, index).value
      a == advance(children, index, FALSE)
      \* the argument after `*` or `**`: the scanner stays where
      \* parse_argument left it
      starred(pa, kind) ==
        [exc |-> pa.exc, arg |-> pa.arg, index |-> pa.index, argtype |-> kind]
      \* any other argument: index.advance() after parse_argument
      plain(pa) ==
        [exc |-> pa.exc, arg |-> pa.arg,
         index |-> advance(children, pa.index, FALSE).index, argtype |-> argtype]
  IN  IF node.type = "STAR"
        THEN IF a.value = None
               THEN [exc |-> "AttributeError", arg |-> None, index |-> a.index,
                     argtype |-> argtype]
             ELSE IF a.value.type = "COMMA"
               THEN [exc |-> NoExc,
                     arg |-> Argument(<<>>, None, None, "KW_SEPARATOR"),
                     index |-> advance(children, a.index, FALSE).index,
                     argtype |-> "KW_ONLY"]
             ELSE starred(parse_argument(a.value, "POS_REMAINDER", children, a.index),
                          "KW_ONLY")
      ELSE IF node.type = "DOUBLESTAR"
        THEN starred(parse_argument(a.value, "KW_REMAINDER", children, a.index),
                     argtype)
      ELSE plain(parse_argument(node, argtype, children, index))

RECURSIVE arglist_loop(_, _, _, _, _)
\* `for node in index.safe_iter(auto_advance=False)` of parse_parameters:
\* start is the index safe_iter read before its loop
arglist_loop(children, start, index, argtype, result) ==
  LET next(s) ==
        IF s.exc # NoExc THEN [exc |-> s.exc, value |-> result]
        ELSE IF s.index = start
          THEN [exc |-> "RuntimeError", value |-> Append(result, s.arg)]
        ELSE arglist_loop(children, start, s.index, s.argtype, Append(result, s.arg))
  IN  IF ~scanner_bool(children, index) THEN [exc |-> NoExc, value |-> result]
      ELSE next(arglist_step(children, index, argtype))

\* Parser.parse_parameters(parameters)
parse_parameters(params) ==
  IF params.type # "parameters" THEN [exc |-> "AssertionError", value |-> <<>>]
  ELSE
    LET arglist == find("typedargslist", params.children)
        tname == find("tname", params.children)
        single(pa) == [exc |-> pa.exc,
                       value |-> IF pa.exc = NoExc THEN <<pa.arg>> ELSE <<>>]
    IN  IF arglist # None
          THEN arglist_loop(arglist.children, 0, 0, "POS", <<>>)
        ELSE IF tname # None
          THEN single(parse_argument(tname, "POS", params.children,
                                     list_index(params.children, tname)))
        ELSE IF Len(params.children) \notin {2, 3}
          THEN [exc |-> "AssertionError", value |-> <<>>]
        ELSE IF Len(params.children) = 3
          THEN IF params.children[2].isNode
                 THEN [exc |-> "AttributeError", value |-> <<>>]
                 ELSE [exc |-> NoExc,
                       value |-> <<Argument(params.children[2].value, None, None, "POS")>>]
        ELSE [exc |-> NoExc, value |-> <<>>]

(***************************************************************************)
(* Reflection objects                                                      *)
(***************************************************************************)
\* A Python list where the code may hold None instead (decorators)
PyList(items) == [items |-> items]

\* reflection.Location(filename, lineno)
Location(fname, lineno) == [filename |-> fname, lineno |-> lineno]

\* reflection.Decorator(name, args)
Decorator(name, call_expr) == [name |-> name, args |-> call_expr]

\* reflection.Data(location, parent, name, docstring, expr=expr)
Data(location, name, docstring, expr) ==
  [kind |-> "Data", location |-> location, name |-> name, docstring |-> docstring,
   expr |-> expr]

\* reflection.Function(location, parent, name, docstring, is_async=...,
\* decorators=..., args=..., return_=...)
Function(location, name, docstring, is_async, decorators, arguments, return_) ==
  [kind |-> "Function", location |-> location, name |-> name, docstring |-> docstring,
   is_async |-> is_async, decorators |-> decorators, args |-> arguments,
   return_ |-> return_]

\* reflection.Class(location, parent, name, docstring, bases=...,
\* metaclass=..., decorators=...) with the members created under it
Class(location, name, docstring, bases, metaclass, decorators, members) ==
  [kind |-> "Class", location |-> location, name |-> name, docstring |-> docstring,
   bases |-> bases, metaclass |-> metaclass, decorators |-> decorators,
   members |-> members]

\* reflection.Module(location, None, module_name, docstring) with the members
\* created under it
Module(location, name, docstring, members) ==
  [kind |-> "Module", location |-> location, name |-> name, docstring |-> docstring,
   members |-> members]

\* member.remove(), for the member an object was just handed back for: it is
\* the last one created under its parent
remove_last(members) == SubSeq(members, 1, Len(members) - 1)

\* An object was created under its parent and is handed back
Created(object) == [exc |-> NoExc, ret |-> object, created |-> <<object>>]

(***************************************************************************)
(* Parser: statements, decorators, functions, classes, declarations        *)
(***************************************************************************)
\* Parser.location_from(node)
location_from(fname, node) == Location(fname, node.lineno)

\* The 1-based position of the first child of the given type, 0 if none
find_index(type, children) ==
  IF \E i \in 1..Len(children) : children[i].type = type
    THEN CHOOSE i \in 1..Len(children) :
           /\ children[i].type = type
           /\ \A j \in 1..(i - 1) : children[j].type # type
    ELSE 0

\* str(node): the source text of the node, its prefix included
RECURSIVE node_str(_)
node_str(node) ==
  IF node.isNode
    THEN IF node.children = <<>> THEN <<>>
         ELSE node_str(node.children[1])
              \o node_str([node EXCEPT !.children = Tail(node.children)])
    ELSE node.prefix \o node.value

\* `not isinstance(child, Node) and child.value == '='`
is_equal_sign(child) == ~child.isNode /\ child.value = <<"=">>

RECURSIVE split_targets(_, _, _, _)
\* The loop of parse_statement over stmt.children from the i-th child on:
\* the node lists before each `=` and the node list after the last one
split_targets(children, i, names, expression) ==
  IF i > Len(children) THEN [names |-> names, expression |-> expression]
  ELSE IF is_equal_sign(children[i])
    THEN split_targets(children, i + 1, Append(names, expression), <<>>)
    ELSE split_targets(children, i + 1, names, Append(expression, children[i]))

\* parse_statement creating a Data object for the last target only
parse_statement_last(fname, root, path) ==
  LET stmt == At(root, path)
      t == split_targets(stmt.children, 1, <<>>, <<>>)
      expr == Expression(nodes_to_string(t.expression))
      data(docstring) ==
        <<Data(location_from(fname, stmt), nodes_to_string(t.names[Len(t.names)]),
               docstring, expr)>>
      result(created) ==
        [exc |-> NoExc, ret |-> created[Len(created)], created |-> created]
  IN  IF t.names # <<>>
        THEN result(data(get_statement_docstring(root, path)))
        ELSE [exc |-> NoExc, ret |-> None, created |-> <<>>]

\* Parser.parse_statement(parent, stmt): the Data objects created under the
\* parent and the object returned
parse_statement(fname, root, path) ==
  LET stmt == At(root, path)
      t == split_targets(stmt.children, 1, <<>>, <<>>)
      expr == Expression(nodes_to_string(t.expression))
      data(docstring) ==
        [i \in 1..Len(t.names) |->
           Data(location_from(fname, stmt), nodes_to_string(t.names[i]),
                docstring, expr)]
      result(created) ==
        [exc |-> NoExc, ret |-> created[Len(created)], created |-> created]
  IN  IF t.names # <<>>
        THEN result(data(get_statement_docstring(root, path)))
        ELSE [exc |-> NoExc, ret |-> None, created |-> <<>>]

\* Parser.name_to_string(node)
name_to_string(node) ==
  IF node.type = "dotted_name"
    THEN nodes_to_string([i \in 1..Len(node.children) |->
                            [node.children[i] EXCEPT !.prefix = <<>>]])
    ELSE node.value

\* Parser.parse_decorator(node)
parse_decorator(node) ==
  IF node.children[1].value # <<"@">> THEN [exc |-> "AssertionError", ret |-> None]
  ELSE LET call_expr == strip(nodes_to_string(drop(node.children, 2))) IN
         [exc |-> NoExc,
          ret |-> Decorator(name_to_string(node.children[2]),
                            IF call_expr # <<>> THEN Expression(call_expr) ELSE None)]

\* Parser.get_return_annotation(node)
get_return_annotation(node) ==
  LET i == find_index("RARROW", node.children) IN
    IF i = 0 THEN [exc |-> NoExc, ret |-> None]
    ELSE IF i = Len(node.children) THEN [exc |-> "AttributeError", ret |-> None]
    ELSE [exc |-> NoExc, ret |-> Expression(nodes_to_string(<<node.children[i + 1]>>))]

\* Parser.parse_funcdef(parent, node, is_async, decorators)
parse_funcdef(fname, root, path, is_async, decorators) ==
  LET node == At(root, path)
      params == find("parameters", node.children)
      suite == find_index("suite", node.children)
      body == IF suite # 0 THEN suite ELSE find_index("simple_stmt", node.children)
      function(docstring, arguments, return_) ==
        IF arguments.exc # NoExc
          THEN [exc |-> arguments.exc, ret |-> None, created |-> <<>>]
        ELSE IF return_.exc # NoExc
          THEN [exc |-> return_.exc, ret |-> None, created |-> <<>>]
        ELSE Created(Function(location_from(fname, node), node.children[2].value,
                              docstring, is_async,
                              IF decorators = None THEN <<>> ELSE decorators.items,
                              arguments.value, return_.ret))
  IN  IF body = 0 \/ params = None
        THEN [exc |-> "AttributeError", ret |-> None, created |-> <<>>]
        ELSE function(get_docstring_from_first_node(root, Append(path, body)),
                      parse_parameters(params), get_return_annotation(node))

\* The header of parse_classdef taking every child of the arglist, the
\* commas too, as an entry
class_header_all(node) ==
  LET classargs == find("arglist", node.children)
      entries == IF classargs = None THEN <<>>
                 ELSE classargs.children
      keys == {i \in 1..Len(entries) :
                 /\ entries[i].type = "argument"
                 /\ entries[i].children[1].value = <<"m", "e", "t", "a", "c", "l", "a", "s", "s">>}
      last == CHOOSE i \in keys : \A j \in keys : j <= i
      plain == SelectSeq(entries, LAMBDA e : e.type # "argument")
  IN  [bases |-> [i \in 1..Len(plain) |-> Expression(node_str(plain[i]))],
       metaclass |-> IF keys = {} THEN None
                     ELSE Expression(nodes_to_string(drop(entries[last].children, 2)))]

\* The header of parse_classdef: bases and metaclass from the arglist child
\* of the classdef node, every second child of it being an entry
class_header(node) ==
  LET classargs == find("arglist", node.children)
      entries == IF classargs = None THEN <<>>
                 ELSE [i \in 1..((Len(classargs.children) + 1) \div 2) |->
                         classargs.children[2 * i - 1]]
      keys == {i \in 1..Len(entries) :
                 /\ entries[i].type = "argument"
                 /\ entries[i].children[1].value = <<"m", "e", "t", "a", "c", "l", "a", "s", "s">>}
      last == CHOOSE i \in keys : \A j \in keys : j <= i
      plain == SelectSeq(entries, LAMBDA e : e.type # "argument")
  IN  [bases |-> [i \in 1..Len(plain) |-> Expression(node_str(plain[i]))],
       metaclass |-> IF keys = {} THEN None
                     ELSE Expression(nodes_to_string(drop(entries[last].children, 2)))]

\* member.name == '__metaclass__'
METACLASS_MEMBER == <<"_", "_", "m", "e", "t", "a", "c", "l", "a", "s", "s", "_", "_">>

RECURSIVE parse_declaration(_, _, _, _)
RECURSIVE class_members(_, _, _, _, _, _)

\* The loop of parse_classdef over suite.children from the i-th child on:
\* metaclass is the local variable of parse_classdef, members the members of
\* the Class so far
class_members(fname, root, suite, i, metaclass, members) ==
  LET promote(m) == /\ metaclass = None
                    /\ m.ret # None
                    /\ m.ret.kind = "Data"
                    /\ m.ret.name = METACLASS_MEMBER
      next(m) ==
        IF m.exc # NoExc THEN [exc |-> m.exc, members |-> members]
        ELSE class_members(fname, root, suite, i + 1,
                           IF promote(m) THEN m.ret.expr ELSE metaclass,
                           IF promote(m) THEN remove_last(members \o m.created)
                           ELSE members \o m.created)
  IN  IF i > Len(At(root, suite).children) THEN [exc |-> NoExc, members |-> members]
      ELSE IF ~At(root, suite).children[i].isNode
        THEN class_members(fname, root, suite, i + 1, metaclass, members)
      ELSE next(parse_declaration(fname, root, Append(suite, i), None))

\* Parser.parse_classdef(parent, node, decorators)
parse_classdef(fname, root, path, decorators) ==
  LET node == At(root, path)
      suite == find_index("suite", node.children)
      class(h, docstring, body) ==
        IF body.exc # NoExc THEN [exc |-> body.exc, ret |-> None, created |-> <<>>]
        ELSE Created(Class(location_from(fname, node), node.children[2].value,
                           docstring, h.bases, h.metaclass, decorators, body.members))
      header(h) ==
        class(h, get_docstring_from_first_node(root, Append(path, suite)),
              class_members(fname, root, Append(path, suite), 1, h.metaclass, <<>>))
  IN  IF suite = 0 THEN [exc |-> "AttributeError", ret |-> None, created |-> <<>>]
      ELSE header(class_header(node))

RECURSIVE parse_decorators(_, _)
\* The loop of parse_declaration over decorator_nodes from the i-th on
parse_decorators(nodes, i) ==
  LET more(d, rest) ==
        IF d.exc # NoExc THEN [exc |-> d.exc, items |-> <<>>]
        ELSE IF rest.exc # NoExc THEN rest
        ELSE [exc |-> NoExc, items |-> <<d.ret>> \o rest.items]
  IN  IF i > Len(nodes) THEN [exc |-> NoExc, items |-> <<>>]
      ELSE IF nodes[i].type # "decorator" THEN [exc |-> "AssertionError", items |-> <<>>]
      ELSE more(parse_decorator(nodes[i]), parse_decorators(nodes, i + 1))

\* Nothing is created and None is returned
Nothing == [exc |-> NoExc, ret |-> None, created |-> <<>>]

\* The simple_stmt branch of parse_declaration, made to raise for a statement
\* that is neither an import nor an expression statement
parse_simple_stmt_strict(fname, root, path, decorators) ==
  LET node == At(root, path) IN
    IF decorators # None /\ decorators.items # <<>>
      THEN [exc |-> "AssertionError", ret |-> None, created |-> <<>>]
    ELSE IF node.children[1].type \in {"import_name", "import_from"}
      THEN Nothing
    ELSE IF node.children[1].type = "expr_stmt"
      THEN parse_statement(fname, root, Append(path, 1))
    ELSE [exc |-> "ParseError", ret |-> None, created |-> <<>>]

\* The simple_stmt branch of parse_declaration: the first child of the node
\* is the statement
parse_simple_stmt(fname, root, path, decorators) ==
  LET node == At(root, path) IN
    IF decorators # None /\ decorators.items # <<>>
      THEN [exc |-> "AssertionError", ret |-> None, created |-> <<>>]
    ELSE IF node.children[1].type \in {"import_name", "import_from"}
      THEN Nothing
    ELSE IF node.children[1].type = "expr_stmt"
      THEN parse_statement(fname, root, Append(path, 1))
    ELSE Nothing

\* Parser.parse_declaration(parent, node, decorators): the object returned,
\* the objects created under the parent, or the exception raised
parse_declaration(fname, root, path, decorators) ==
  LET node == At(root, path)
      decorate(ds) ==
        IF ds.exc # NoExc
          THEN [exc |-> ds.exc, ret |-> None, created |-> <<>>]
          ELSE parse_declaration(fname, root, Append(path, 2), PyList(ds.items))
  IN
    IF node.type = "simple_stmt"
      THEN parse_simple_stmt(fname, root, path, decorators)
    ELSE IF node.type = "funcdef"
      THEN parse_funcdef(fname, root, path, FALSE, decorators)
    ELSE IF node.type = "classdef"
      THEN parse_classdef(fname, root, path, decorators)
    ELSE IF node.type \in {"async_stmt", "async_funcdef"}
      THEN IF node.children[2].type = "funcdef"
             THEN parse_funcdef(fname, root, Append(path, 2), TRUE, decorators)
             ELSE Nothing
    ELSE IF node.type = "decorated"
      THEN IF Len(node.children) # 2
             THEN [exc |-> "AssertionError", ret |-> None, created |-> <<>>]
           ELSE IF node.children[1].type \notin {"decorator", "decorators"}
             THEN [exc |-> "AssertionError", ret |-> None, created |-> <<>>]
           ELSE decorate(parse_decorators(IF node.children[1].type = "decorator"
                                            THEN <<node.children[1]>>
                                            ELSE node.children[1].children, 1))
    ELSE Nothing

(***************************************************************************)
(* Parser.parse and parse_file                                             *)
(***************************************************************************)
\* os.path.basename(p)
basename(p) ==
  LET seps == {i \in 1..Len(p) : p[i] = "/"} IN
    IF seps = {} THEN p ELSE drop(p, CHOOSE i \in seps : \A j \in seps : j <= i)

\* os.path.splitext(b)[0] for a name without directory: the extension starts
\* at the last dot, unless only dots come before it
splitext_root(b) ==
  LET dots == {i \in 1..Len(b) : b[i] = "."}
      d == CHOOSE i \in dots : \A j \in dots : j <= i
  IN  IF dots # {} /\ (\E i \in 1..(d - 1) : b[i] # ".")
        THEN SubSeq(b, 1, d - 1) ELSE b

RECURSIVE module_members(_, _, _, _, _)
\* The loop of Parser.parse over ast.children from the i-th child on: the
\* members of the Module so far and what each parse_declaration handed back
module_members(fname, root, i, members, returned) ==
  LET next(m) ==
        IF m.exc # NoExc
          THEN [exc |-> m.exc, members |-> members, returned |-> returned]
          ELSE module_members(fname, root, i + 1, members \o m.created,
                              Append(returned, m.ret))
  IN  IF i > Len(root.children)
        THEN [exc |-> NoExc, members |-> members, returned |-> returned]
        ELSE next(parse_declaration(fname, root, <<i>>, None))

\* Parser.parse(ast, filename, module_name)
parse(ast, fname, mname) ==
  LET name == IF mname = None THEN splitext_root(basename(fname)) ELSE mname.str
      docstring == IF ast.children # <<>> THEN get_docstring_from_first_node(ast, <<>>)
                   ELSE None
      result(body) ==
        [exc |-> body.exc,
         ret |-> IF body.exc # NoExc THEN None
                 ELSE Module(location_from(fname, ast), name, docstring, body.members),
         returned |-> body.returned]
  IN  result(module_members(fname, ast, 1, <<>>, <<>>))

\* No file is being parsed
FileIdle ==
  /\ code = None
  /\ filename = <<>>
  /\ module_name = None
  /\ self_filename = None
  /\ module = None

\* self.filename = filename, whatever the Parser held before
set_filename_once(self, fname) == IF self = None THEN Str(fname) ELSE self

set_filename(self, fname) == Str(fname)

\* The Parser that is kept between parses; a Parser has no filename
\* attribute before its first parse
Parsers == {"p"}

\* No Parser has parsed anything yet
NoCalls ==
  /\ parsers = [p \in Parsers |-> None]
  /\ calls = <<>>

(***************************************************************************)
(* The source text and its tree: parse_to_ast                              *)
(*                                                                         *)
(* The code handed to parse_file is described statement by statement; the  *)
(* tree is the one lib2to3 builds for that text.  The comment lines and    *)
(* blank lines before a statement (its trivia) are the prefix of the first *)
(* token after them: the statement's first leaf, the INDENT leaf when the  *)
(* statement opens an indented block, the DEDENT leaf when it follows one. *)
(***************************************************************************)
\* Words of the source text
W_Meta == <<"M", "e", "t", "a">>
W_pass == <<"p", "a", "s", "s">>
W_import == <<"i", "m", "p", "o", "r", "t">>
W_from == <<"f", "r", "o", "m">>
W_async == <<"a", "s", "y", "n", "c">>
W_class == <<"c", "l", "a", "s", "s">>
W_metaclass == <<"m", "e", "t", "a", "c", "l", "a", "s", "s">>

\* The source: the statements of the module
Source(body) == [body |-> body]

\* `t = o.p = v + 1`: trivia are the lines before the statement, targets the
\* kinds of its targets, comment the comment after it on its line
Assign(trivia, targets, comment) ==
  [form |-> "assign", trivia |-> trivia, targets |-> targets, comment |-> comment]

\* `pass`, `import os`, `from a import b`, `"s"`, `f(1)`, `if c: pass`,
\* `for i in s: pass`, `with c: pass`
Other(form, trivia) == [form |-> form, trivia |-> trivia]

\* `def f(x): pass`, or with the body `"doc"` on a line of its own (block),
\* after `async` and under decorators
Def(trivia, is_async, decorators, block) ==
  [form |-> "def", trivia |-> trivia, is_async |-> is_async,
   decorators |-> decorators, block |-> block]

\* `class C(entries): body`: parens tells whether the header has
\* parentheses, comma whether a comma ends the entries, oneline whether the
\* body is one statement on the header line
ClassDef(trivia, decorators, parens, entries, comma, oneline, body) ==
  [form |-> "class", trivia |-> trivia, decorators |-> decorators,
   parens |-> parens, entries |-> entries, comma |-> comma,
   oneline |-> oneline, body |-> body]

\* The statement ends with an indented block, closed by a DEDENT leaf
EndsWithBlock(d) ==
  \/ d.form = "def" /\ d.block
  \/ d.form = "class" /\ ~d.oneline

RECURSIVE lines_text(_)
\* The text of the given lines, each ended by a newline
lines_text(lines) ==
  IF lines = <<>> THEN <<>> ELSE Head(lines) \o <<NL>> \o lines_text(Tail(lines))

NEWLINE == Leaf("NEWLINE", <<NL>>, <<>>)

TargetNames == << <<"t">>, <<"u">>, <<"w">>, <<"x">>, <<"y">> >>
BaseNames == << <<"A">>, <<"B">>, <<"D">>, <<"E">>, <<"G">> >>
KeywordNames == << <<"k">>, <<"l">>, <<"n">>, <<"q">>, <<"r">> >>

\* The i-th target of an assignment: a name, the attribute `o.p`, or the
\* name `__metaclass__`
target_node(kind, i, lead) ==
  IF kind = "attr"
    THEN Node("power", <<Leaf("NAME", <<"o">>, lead),
                         Node("trailer", <<Leaf("DOT", <<".">>, <<>>),
                                           Leaf("NAME", <<"p">>, <<>>)>>)>>)
  ELSE IF kind = "meta" THEN Leaf("NAME", METACLASS_MEMBER, lead)
  ELSE Leaf("NAME", IF i <= Len(TargetNames) THEN TargetNames[i] ELSE <<"z">>, lead)

RECURSIVE target_nodes(_, _, _)
\* The targets from the i-th on, an `=` after each
target_nodes(targets, i, lead) ==
  IF i > Len(targets) THEN <<>>
  ELSE <<target_node(targets[i], i, IF i = 1 THEN lead ELSE <<SP>>),
         Leaf("EQUAL", <<"=">>, <<SP>>)>>
       \o target_nodes(targets, i + 1, lead)

\* The value assigned: `Meta` to __metaclass__, `v + 1` otherwise
value_node(targets) ==
  IF \E i \in 1..Len(targets) : targets[i] = "meta"
    THEN Leaf("NAME", W_Meta, <<SP>>)
    ELSE Node("arith_expr", <<Leaf("NAME", <<"v">>, <<SP>>),
                              Leaf("PLUS", <<"+">>, <<SP>>),
                              Leaf("NUMBER", <<"1">>, <<SP>>)>>)

\* The simple_stmt of an assignment; without targets it is `e += 1`
assign_node(d, lead) ==
  Node("simple_stmt",
       <<Node("expr_stmt",
              IF d.targets = <<>>
                THEN <<Leaf("NAME", <<"e">>, lead),
                       Leaf("PLUSEQUAL", <<"+", "=">>, <<SP>>),
                       Leaf("NUMBER", <<"1">>, <<SP>>)>>
                ELSE target_nodes(d.targets, 1, lead) \o <<value_node(d.targets)>>),
         Leaf("NEWLINE", <<NL>>, d.comment)>>)

\* `pass` and a newline
pass_node(lead) == Node("simple_stmt", <<Leaf("NAME", W_pass, lead), NEWLINE>>)

\* The statements that are neither an assignment nor a definition
other_node(form, lead) ==
  IF form = "pass" THEN pass_node(lead)
  ELSE IF form = "import_name"
    THEN Node("simple_stmt",
              <<Node("import_name", <<Leaf("NAME", W_import, lead),
                                      Leaf("NAME", <<"o", "s">>, <<SP>>)>>),
                NEWLINE>>)
  ELSE IF form = "import_from"
    THEN Node("simple_stmt",
              <<Node("import_from", <<Leaf("NAME", W_from, lead),
                                      Leaf("NAME", <<"a">>, <<SP>>),
                                      Leaf("NAME", W_import, <<SP>>),
                                      Leaf("NAME", <<"b">>, <<SP>>)>>),
                NEWLINE>>)
  ELSE IF form = "string"
    THEN Node("simple_stmt", <<Leaf("STRING", <<"\"", "s", "\"">>, lead), NEWLINE>>)
  ELSE IF form = "call"
    THEN Node("simple_stmt",
              <<Node("power", <<Leaf("NAME", <<"f">>, lead),
                                Node("trailer", <<Leaf("LPAR", <<"(">>, <<>>),
                                                  Leaf("NUMBER", <<"1">>, <<>>),
                                                  Leaf("RPAR", <<")">>, <<>>)>>)>>),
                NEWLINE>>)
  ELSE IF form = "if"
    THEN Node("if_stmt", <<Leaf("NAME", <<"i", "f">>, lead),
                           Leaf("NAME", <<"c">>, <<SP>>),
                           Leaf("COLON", <<":">>, <<>>), pass_node(<<SP>>)>>)
  ELSE IF form = "for"
    THEN Node("for_stmt", <<Leaf("NAME", <<"f", "o", "r">>, lead),
                            Leaf("NAME", <<"i">>, <<SP>>),
                            Leaf("NAME", <<"i", "n">>, <<SP>>),
                            Leaf("NAME", <<"s">>, <<SP>>),
                            Leaf("COLON", <<":">>, <<>>), pass_node(<<SP>>)>>)
  ELSE Node("with_stmt", <<Leaf("NAME", <<"w", "i", "t", "h">>, lead),
                           Leaf("NAME", <<"c">>, <<SP>>),
                           Leaf("COLON", <<":">>, <<>>), pass_node(<<SP>>)>>)

\* The i-th decorator of n: `@d` is the one next to the definition,
\* `@a.b(1)` the one before it
decorator_node(i, n, lead) ==
  IF i = n
    THEN Node("decorator", <<Leaf("AT", <<"@">>, lead), Leaf("NAME", <<"d">>, <<>>),
                             NEWLINE>>)
    ELSE Node("decorator",
              <<Leaf("AT", <<"@">>, lead),
                Node("dotted_name", <<Leaf("NAME", <<"a">>, <<>>),
                                      Leaf("DOT", <<".">>, <<>>),
                                      Leaf("NAME", <<"b">>, <<>>)>>),
                Leaf("LPAR", <<"(">>, <<>>), Leaf("NUMBER", <<"1">>, <<>>),
                Leaf("RPAR", <<")">>, <<>>), NEWLINE>>)

\* A definition under n decorators: lib2to3 wraps it in a `decorated` node,
\* and more than one decorator in a `decorators` node
decorated_node(n, lead, indent, inner) ==
  IF n = 0 THEN inner
  ELSE Node("decorated",
            <<IF n = 1 THEN decorator_node(1, 1, lead)
              ELSE Node("decorators",
                        [i \in 1..n |->
                           decorator_node(i, n, IF i = 1 THEN lead ELSE indent)]),
              inner>>)

\* The funcdef of `def f(x): pass` or of `def f(x):` with the body `"doc"`,
\* whose closing DEDENT carries the trivia of what follows
funcdef_node(d, lead, indent, tail) ==
  Node("funcdef",
       <<Leaf("NAME", <<"d", "e", "f">>, lead), Leaf("NAME", <<"f">>, <<SP>>),
         Node("parameters", <<Leaf("LPAR", <<"(">>, <<>>),
                              Leaf("NAME", <<"x">>, <<>>),
                              Leaf("RPAR", <<")">>, <<>>)>>),
         Leaf("COLON", <<":">>, <<>>),
         IF d.block
           THEN Node("suite",
                     <<NEWLINE, Leaf("INDENT", indent \o <<SP, SP>>, <<>>),
                       Node("simple_stmt",
                            <<Leaf("STRING", <<"\"", "d", "o", "c", "\"">>, <<>>),
                              NEWLINE>>),
                       Leaf("DEDENT", <<>>, tail)>>)
           ELSE pass_node(<<SP>>)>>)

\* A function definition: behind `async` it is an async_stmt, or an
\* async_funcdef when it is decorated
def_node(d, lead, indent, tail) ==
  LET first == IF d.decorators = 0 THEN lead ELSE indent
      inner == IF d.is_async
                 THEN Node(IF d.decorators = 0 THEN "async_stmt" ELSE "async_funcdef",
                           <<Leaf("ASYNC", W_async, first),
                             funcdef_node(d, <<SP>>, indent, tail)>>)
                 ELSE funcdef_node(d, first, indent, tail)
  IN  decorated_node(d.decorators, lead, indent, inner)

\* The i-th entry of a class header: a base, `metaclass=M` or `k=1`
entry_node(entries, i) ==
  LET lead == IF i = 1 THEN <<>> ELSE <<SP>>
      r == Cardinality({j \in 1..i : entries[j] = entries[i]})
  IN  IF entries[i] = "base"
        THEN Leaf("NAME", IF r <= Len(BaseNames) THEN BaseNames[r] ELSE <<"Z">>, lead)
      ELSE IF entries[i] = "metaclass"
        THEN Node("argument", <<Leaf("NAME", W_metaclass, lead),
                                Leaf("EQUAL", <<"=">>, <<>>),
                                Leaf("NAME", <<"M">>, <<>>)>>)
      ELSE Node("argument",
                <<Leaf("NAME", IF r <= Len(KeywordNames) THEN KeywordNames[r]
                               ELSE <<"z">>, lead),
                  Leaf("EQUAL", <<"=">>, <<>>), Leaf("NUMBER", <<"1">>, <<>>)>>)

RECURSIVE entry_tokens(_, _, _)
\* The entries from the i-th on, commas between them and one at the end if
\* written
entry_tokens(entries, i, comma) ==
  IF i > Len(entries) THEN <<>>
  ELSE <<entry_node(entries, i)>>
       \o (IF i < Len(entries) \/ comma THEN <<Leaf("COMMA", <<",">>, <<>>)>> ELSE <<>>)
       \o entry_tokens(entries, i + 1, comma)

\* What stands between the class name and the colon: lib2to3 wraps the
\* entries in an arglist unless there is a single token
header_nodes(d) ==
  LET toks == entry_tokens(d.entries, 1, d.comma) IN
    IF ~d.parens THEN <<>>
    ELSE <<Leaf("LPAR", <<"(">>, <<>>)>>
         \o (IF Len(toks) <= 1 THEN toks ELSE <<Node("arglist", toks)>>)
         \o <<Leaf("RPAR", <<")">>, <<>>)>>

RECURSIVE stmt_node(_, _, _, _)
RECURSIVE body_nodes(_, _, _, _)

\* The statements of a body from the i-th on.  In an indented block the
\* trivia of the first statement are on the INDENT leaf; after a statement
\* that ends with a block they are on its DEDENT leaf.
body_nodes(body, i, indent, indented) ==
  IF i > Len(body) THEN <<>>
  ELSE LET own == lines_text(body[i].trivia) \o indent
           lead == IF i = 1 /\ indented THEN <<>>
                   ELSE IF i > 1 /\ EndsWithBlock(body[i - 1]) THEN <<>>
                   ELSE own
           tail == IF i < Len(body)
                     THEN lines_text(body[i + 1].trivia) \o indent
                     ELSE <<>>
       IN  <<stmt_node(body[i], lead, indent, tail)>>
           \o body_nodes(body, i + 1, indent, indented)

\* The classdef node, its body a suite or one statement on the header line
classdef_node(d, lead, indent, tail) ==
  LET deeper == indent \o <<SP, SP>>
      inner ==
        Node("classdef",
             <<Leaf("NAME", W_class, IF d.decorators = 0 THEN lead ELSE indent),
               Leaf("NAME", <<"C">>, <<SP>>)>>
             \o header_nodes(d)
             \o <<Leaf("COLON", <<":">>, <<>>),
                  IF d.oneline
                    THEN stmt_node(d.body[1], <<SP>>, indent, <<>>)
                    ELSE Node("suite",
                              <<NEWLINE,
                                Leaf("INDENT", deeper, lines_text(d.body[1].trivia))>>
                              \o body_nodes(d.body, 1, deeper, TRUE)
                              \o <<Leaf("DEDENT", <<>>, tail)>>)>>)
  IN  decorated_node(d.decorators, lead, indent, inner)

\* The node of one statement: lead is the prefix of its first leaf, tail the
\* prefix of the DEDENT leaf that closes it
stmt_node(d, lead, indent, tail) ==
  IF d.form = "assign" THEN assign_node(d, lead)
  ELSE IF d.form = "def" THEN def_node(d, lead, indent, tail)
  ELSE IF d.form = "class" THEN classdef_node(d, lead, indent, tail)
  ELSE other_node(d.form, lead)

RECURSIVE number(_, _)
RECURSIVE number_children(_, _, _)

\* The children with their line numbers, the first of them starting on the
\* given line, and the line the text after them is on
number_children(children, i, line) ==
  IF i > Len(children) THEN [children |-> <<>>, line |-> line]
  ELSE LET first == number(children[i], line)
           rest == number_children(children, i + 1, first.line)
       IN  [children |-> <<first.node>> \o rest.children, line |-> rest.line]

\* The tokenizer's line numbers: a leaf is on the line its value starts on
number(node, line) ==
  IF node.isNode
    THEN LET c == number_children(node.children, 1, line) IN
           [node |-> Node(node.type, c.children), line |-> c.line]
    ELSE LET at == line + count(node.prefix, NL) IN
           [node |-> [node EXCEPT !.lineno = at], line |-> at + count(node.value, NL)]

\* parse_to_ast(code, filename): the file_input node of the text
parse_to_ast(src) ==
  number(Node("file_input",
              body_nodes(src.body, 1, <<>>, FALSE)
              \o <<Leaf("ENDMARKER", <<>>, <<>>)>>), 1).node

(***************************************************************************)
(* The parameter lists lib2to3 hands to parse_parameters                   *)
(***************************************************************************)
\* The most parameters of a generated parameter list
MaxParams == 3

\* A parameter as written: `x`, `x: T`, `x=1`, `x: T = 1`, `*x`, `*x: T`,
\* `*`, `**x`, `**x: T`
ParamForms ==
  [kind : {"plain"}, ann : BOOLEAN, dflt : BOOLEAN]
  \cup [kind : {"star", "dstar"}, ann : BOOLEAN, dflt : {FALSE}]
  \cup [kind : {"sep"}, ann : {FALSE}, dflt : {FALSE}]

\* The parameter lists of the grammar: plain parameters, then at most one
\* `*name` or bare `*` (a bare `*` needs a named parameter after it), then
\* plain (keyword-only) parameters, then at most one `**name`, last.
ValidParams(ps) ==
  /\ Cardinality({i \in 1..Len(ps) : ps[i].kind \in {"star", "sep"}}) <= 1
  /\ \A i \in 1..Len(ps) : ps[i].kind = "dstar" => i = Len(ps)
  /\ \A i \in 1..Len(ps) :
       ps[i].kind = "sep" => i < Len(ps) /\ ps[i + 1].kind = "plain"

PlainNames == << <<"a">>, <<"b">>, <<"c">>, <<"d">>, <<"e">>, <<"f">> >>
DefaultTexts == << <<"1">>, <<"2">>, <<"3">>, <<"4">>, <<"5">>, <<"6">> >>

\* The name of the i-th parameter of ps
ParamName(ps, i) ==
  IF ps[i].kind = "star" THEN <<"a", "r", "g", "s">>
  ELSE IF ps[i].kind = "dstar" THEN <<"k", "w", "a", "r", "g", "s">>
  ELSE LET r == Cardinality({j \in 1..i : ps[j].kind = "plain"}) IN
         IF r <= Len(PlainNames) THEN PlainNames[r] ELSE <<"p">>

\* The text of the default value of the i-th parameter of ps
ParamDefault(ps, i) ==
  LET r == Cardinality({j \in 1..i : ps[j].dflt}) IN
    IF r <= Len(DefaultTexts) THEN DefaultTexts[r] ELSE <<"0">>

\* The tokens of the i-th parameter; lead is the whitespace before it
ParamTokens(ps, i, lead) ==
  LET p == ps[i]
      starred == p.kind \in {"star", "dstar", "sep"}
      nameLead == IF starred THEN <<>> ELSE lead
      name == IF p.ann
                THEN Node("tname", <<Leaf("NAME", ParamName(ps, i), nameLead),
                                     Leaf("COLON", <<":">>, <<>>),
                                     Leaf("NAME", <<"T">>, <<SP>>)>>)
                ELSE Leaf("NAME", ParamName(ps, i), nameLead)
      gap == IF p.ann THEN <<SP>> ELSE <<>>
  IN  (IF p.kind \in {"star", "sep"} THEN <<Leaf("STAR", <<"*">>, lead)>>
       ELSE IF p.kind = "dstar" THEN <<Leaf("DOUBLESTAR", <<"*", "*">>, lead)>>
       ELSE <<>>)
      \o (IF p.kind = "sep" THEN <<>> ELSE <<name>>)
      \o (IF p.dflt
            THEN <<Leaf("EQUAL", <<"=">>, gap), Leaf("NUMBER", ParamDefault(ps, i), gap)>>
            ELSE <<>>)

RECURSIVE ListTokens(_, _, _)
\* The tokens of the parameters from the i-th on, commas between them and a
\* trailing comma if written
ListTokens(ps, i, trailing) ==
  IF i > Len(ps) THEN <<>>
  ELSE ParamTokens(ps, i, IF i = 1 THEN <<>> ELSE <<SP>>)
       \o (IF i < Len(ps) \/ trailing THEN <<Leaf("COMMA", <<",">>, <<>>)>> ELSE <<>>)
       \o ListTokens(ps, i + 1, trailing)

\* The `parameters` node of `(ps)`: lib2to3 collapses a node with one child,
\* so that a single token is not wrapped in a typedargslist
ParametersNode(ps, trailing) ==
  LET toks == ListTokens(ps, 1, trailing) IN
    Node("parameters",
         <<Leaf("LPAR", <<"(">>, <<>>)>>
         \o (IF Len(toks) <= 1 THEN toks ELSE <<Node("typedargslist", toks)>>)
         \o <<Leaf("RPAR", <<")">>, <<>>)>>)

ParamLists ==
  {ps \in UNION {[1..n -> ParamForms] : n \in 0..MaxParams} : ValidParams(ps)}

\* (a, b=1, *args, c, d=2, **kwargs)
GeneralParams ==
  <<[kind |-> "plain", ann |-> FALSE, dflt |-> FALSE],
    [kind |-> "plain", ann |-> FALSE, dflt |-> TRUE],
    [kind |-> "star", ann |-> FALSE, dflt |-> FALSE],
    [kind |-> "plain", ann |-> FALSE, dflt |-> FALSE],
    [kind |-> "plain", ann |-> FALSE, dflt |-> TRUE],
    [kind |-> "dstar", ann |-> FALSE, dflt |-> FALSE]>>

ParameterNodes ==
  {ParametersNode(ps, t) : ps \in (ParamLists \ {<<>>}), t \in BOOLEAN}
  \cup {ParametersNode(<<>>, FALSE), ParametersNode(GeneralParams, FALSE)}

\* The scanner object is not in use while a Parser runs on its own input
ScannerIdle ==
  /\ _list = <<>>
  /\ _index = 0
  /\ call = NoCall
  /\ it = NoIter

\* A function definition's parameters, not yet parsed
ParamsInit ==
  /\ parameters \in ParameterNodes
  /\ args = None
  /\ ScannerIdle
  /\ FileIdle
  /\ NoCalls

\* args = self.parse_parameters(parameters)
ParseParameters ==
  /\ args = None
  /\ args' = parse_parameters(parameters)
  /\ UNCHANGED parameters
  /\ UNCHANGED <<fileVars, scanVars, callVars>>

ParamsNext ==
  \/ ParseParameters

SpecParams == ParamsInit /\ [][ParamsNext]_vars

(***************************************************************************)
(* ListScanner as an object: construction, current, advance, safe_iter     *)
(***************************************************************************)
\* Bounds of the scanner model
MaxLen == 3
MaxPast == 2
MaxYields == 4

\* The scanned lists hold tree elements
Elements == {Leaf("NAME", <<"x">>, <<>>), Leaf("COMMA", <<",">>, <<SP>>)}

Lists == UNION {[1..n -> Elements] : n \in 0..MaxLen}

\* ListScanner.__init__(lst, index)
ScannerInit ==
  /\ _list \in Lists
  /\ _index \in 0..Len(_list)
  /\ call = NoCall
  /\ it = NoIter
  /\ parameters = None
  /\ args = None
  /\ FileIdle
  /\ NoCalls

\* scanner.current
Current ==
  /\ LET c == current(_list, _index) IN
       call' = [op |-> "current", from |-> _index, expect |-> FALSE,
                exc |-> c.exc, value |-> c.value]
  /\ UNCHANGED <<_list, _index, it>>
  /\ UNCHANGED <<fileVars, paramVars, callVars>>

\* scanner.advance(expect), called by the user of the scanner
Advance ==
  \E expect \in BOOLEAN :
    /\ _index < Len(_list) + MaxPast
    /\ it.pc \in {"idle", "yielded"}
    /\ LET a == advance(_list, _index, expect) IN
         /\ _index' = a.index
         /\ call' = [op |-> "advance", from |-> _index, expect |-> expect,
                     exc |-> a.exc, value |-> a.value]
    /\ UNCHANGED <<_list, it>>
    /\ UNCHANGED <<fileVars, paramVars, callVars>>

\* The `while self: yield self.current` part of safe_iter, entered with the
\* scanner at index i: the generator yields position i or returns.
IterLoop(g, i) ==
  IF scanner_bool(_list, i)
    THEN [g EXCEPT !.pc = "yielded", !.at = i, !.yields = g.yields + 1]
    ELSE [g EXCEPT !.pc = "done"]

\* The first next() on scanner.safe_iter(auto_advance): `index = self._index`
\* is read once, before the loop.
IterStart ==
  \E auto \in BOOLEAN :
    /\ it.pc = "idle"
    /\ it' = IterLoop([it EXCEPT !.auto_advance = auto, !.index = _index], _index)
    /\ UNCHANGED <<_list, _index, call>>
    /\ UNCHANGED <<fileVars, paramVars, callVars>>

\* A later next(): the code after the yield, then the loop again.
IterResume ==
  /\ it.pc = "yielded"
  /\ it.yields < MaxYields
  /\ IF it.auto_advance
       THEN LET a == advance(_list, _index, FALSE) IN
              /\ _index' = a.index
              /\ call' = [op |-> "advance", from |-> _index, expect |-> FALSE,
                          exc |-> a.exc, value |-> a.value]
              /\ it' = IterLoop(it, a.index)
       ELSE /\ it' = IF _index = it.index
                       THEN [it EXCEPT !.pc = "raised"]
                       ELSE IterLoop(it, _index)
            /\ UNCHANGED <<_index, call>>
  /\ UNCHANGED _list
  /\ UNCHANGED <<fileVars, paramVars, callVars>>

ScannerNext ==
  \/ Current
  \/ Advance
  \/ IterStart
  \/ IterResume

SpecScanner == ScannerInit /\ [][ScannerNext]_vars

(***************************************************************************)
(* parse_file on the sources of three kinds: assignments under comments,   *)
(* class definitions, and modules of every kind of statement               *)
(***************************************************************************)
MaxLines == 3
MaxTargets == 2
MaxEntries == 3
MaxBody == 2
MaxStatements == 2

\* pkg/m.py
FileName == <<"p", "k", "g", "/", "m", ".", "p", "y">>

\* The lines before a statement: an empty line, a line of one blank, `#:a`,
\* `#b`, ` #: c`
TriviaLines ==
  {<<>>, <<SP>>, <<"#", ":", "a">>, <<"#", "b">>, <<SP, "#", ":", SP, "c">>}

Trivias == UNION {[1..n -> TriviaLines] : n \in 0..MaxLines}

\* `e += 1`, `t = v + 1`, `o.p = v + 1`, `t = o.p = v + 1`, ...
TargetLists == UNION {[1..k -> {"name", "attr"}] : k \in 0..MaxTargets}

\* An assignment under its trivia: alone in the module, after a line that
\* ends with a comment, after an indented block, first in a class body, and
\* later in a class body
StmtSources ==
  UNION {{Source(<<a>>),
          Source(<<Assign(<<>>, <<"name">>, <<SP, SP, "#", ":", SP, "r">>), a>>),
          Source(<<Def(<<>>, FALSE, 0, TRUE), a>>),
          Source(<<ClassDef(<<>>, 0, FALSE, <<>>, FALSE, FALSE, <<a>>)>>),
          Source(<<ClassDef(<<>>, 0, FALSE, <<>>, FALSE, FALSE,
                            <<Other("pass", <<>>), a>>)>>)} :
         a \in {Assign(t, ts, <<>>) : t \in Trivias, ts \in TargetLists}}

\* The entries of a class header: bases, then keywords, `metaclass` at most
\* once among them
EntryLists ==
  {es \in UNION {[1..n -> {"base", "metaclass", "kw"}] : n \in 0..MaxEntries} :
     /\ \A i \in 1..Len(es) : \A j \in 1..(i - 1) : es[i] = "base" => es[j] = "base"
     /\ Cardinality({i \in 1..Len(es) : es[i] = "metaclass"}) <= 1}

\* The statements of a class body: `__metaclass__ = Meta`, the same in a
\* chained assignment as first and as last target, `t = v + 1`, `pass`,
\* `def f(x): pass`
BodyStatements ==
  {Assign(<<>>, <<"meta">>, <<>>), Assign(<<>>, <<"meta", "name">>, <<>>),
   Assign(<<>>, <<"name", "meta">>, <<>>), Assign(<<>>, <<"name">>, <<>>),
   Other("pass", <<>>), Def(<<>>, FALSE, 0, FALSE)}

\* A class: with or without parentheses when it has no entries, with or
\* without a comma after the last entry, its body indented or, when it is
\* one simple statement, on the header line
ClassSources ==
  {Source(<<ClassDef(<<>>, 0, parens, es, comma, oneline, body)>>) :
     parens \in BOOLEAN, es \in EntryLists, comma \in BOOLEAN, oneline \in BOOLEAN,
     body \in UNION {[1..n -> BodyStatements] : n \in 1..MaxBody}}

ValidClass(d) ==
  /\ d.entries # <<>> => d.parens
  /\ d.comma => d.entries # <<>>
  /\ d.oneline => Len(d.body) = 1 /\ d.body[1].form # "def"

\* The statements of a module, one of every kind parse_declaration is handed
DeclStatements ==
  {Assign(<<>>, <<"name">>, <<>>), Assign(<<>>, <<>>, <<>>)}
  \cup {Other(f, <<>>) : f \in {"pass", "import_name", "import_from", "string",
                               "call", "if", "for", "with"}}
  \cup {Def(<<>>, a, n, FALSE) : a \in BOOLEAN, n \in 0..2}
  \cup {Def(<<>>, FALSE, 0, TRUE)}
  \cup {ClassDef(<<>>, n, FALSE, <<>>, FALSE, oneline, <<Other("pass", <<>>)>>) :
          n \in 0..1, oneline \in BOOLEAN}

DeclSources ==
  {Source(body) : body \in UNION {[1..n -> DeclStatements] : n \in 1..MaxStatements}}

\* parse_file(code, filename, module_name) has not been called yet
FileInit(sources, names) ==
  /\ code \in sources
  /\ filename = FileName
  /\ module_name \in names
  /\ self_filename = None
  /\ module = None
  /\ parameters = None
  /\ args = None
  /\ ScannerIdle
  /\ NoCalls

StmtInit == FileInit(StmtSources, {None})

ClassInit == FileInit({c \in ClassSources : ValidClass(c.body[1])}, {None})

DeclInit == FileInit(DeclSources, {None, Str(<<"p", "k", "g", ".", "m">>)})

\* module = parse_file(code, filename, module_name): a new Parser parses the
\* tree of the code
ParseFile ==
  /\ code # None
  /\ module = None
  /\ self_filename' = Str(filename)
  /\ module' = parse(parse_to_ast(code), filename, module_name)
  /\ UNCHANGED <<code, filename, module_name>>
  /\ UNCHANGED <<paramVars, scanVars, callVars>>

FileNext ==
  \/ ParseFile

SpecStmt == StmtInit /\ [][FileNext]_vars

SpecClass == ClassInit /\ [][FileNext]_vars

SpecDecl == DeclInit /\ [][FileNext]_vars

(***************************************************************************)
(* Parses one after another, on Parsers that are kept and on new ones      *)
(***************************************************************************)
MaxCalls == 3

\* pkg/m.py and n.py
FileNames == {FileName, <<"n", ".", "p", "y">>}

\* No module name, and pkg.m
ModuleNames == {None, Str(<<"p", "k", "g", ".", "m">>)}

\* A module of a documented chained assignment and a decorated async
\* function, and a module of a docstring and a class with a header, a
\* __metaclass__ assignment and a method
CallSources ==
  {Source(<<Assign(<< <<"#", ":", "a">> >>, <<"name", "attr">>, <<>>),
            Def(<<>>, TRUE, 1, FALSE)>>),
   Source(<<Other("string", <<>>),
            ClassDef(<< <<"#", "b">> >>, 0, TRUE, <<"base", "metaclass">>, FALSE, FALSE,
                     <<Assign(<<>>, <<"meta">>, <<>>), Def(<<>>, FALSE, 0, FALSE)>>)>>)}

\* Nothing has been parsed yet
CallsInit ==
  /\ FileIdle
  /\ parameters = None
  /\ args = None
  /\ ScannerIdle
  /\ NoCalls

\* What one parse leaves in the log
Call(p, src, fname, mname, tree) ==
  [parser |-> p, code |-> src, filename |-> fname, module_name |-> mname,
   module |-> tree]

\* parser.parse(ast, filename, module_name) on a Parser that is kept:
\* self.filename is assigned first, and location_from reads it
ParserParse ==
  \E p \in Parsers, src \in CallSources, fname \in FileNames, mname \in ModuleNames :
    /\ Len(calls) < MaxCalls
    /\ parsers' = [parsers EXCEPT ![p] = set_filename(@, fname)]
    /\ calls' = Append(calls, Call(p, src, fname, mname,
                                   parse(parse_to_ast(src), parsers'[p].str, mname)))
    /\ UNCHANGED <<fileVars, paramVars, scanVars>>

\* parse_file(code, filename, module_name): Parser().parse(...) on a Parser
\* of its own
NewParserParse ==
  \E src \in CallSources, fname \in FileNames, mname \in ModuleNames :
    /\ Len(calls) < MaxCalls
    /\ calls' = Append(calls, Call("new", src, fname, mname,
                                   parse(parse_to_ast(src), set_filename(None, fname).str,
                                         mname)))
    /\ UNCHANGED parsers
    /\ UNCHANGED <<fileVars, paramVars, scanVars>>

CallsNext ==
  \/ ParserParse
  \/ NewParserParse

SpecCalls == CallsInit /\ [][CallsNext]_vars

(***************************************************************************)
(* Claims about ListScanner                                                *)
(***************************************************************************)
\* C8: in safe_iter(auto_advance=False), resuming the generator after a step
\* in which the scanner index was not moved raises RuntimeError, on every
\* step and not only the first.
C8_StalledStepRaises ==
  [][(it.pc = "yielded" /\ ~it.auto_advance /\ _index = it.at /\ it' # it)
       => it'.pc = "raised"]_vars

\* C9: advance(expect) from index i >= 0 leaves the index at i+1 in every
\* case; it returns the element at i+1 when there is one, and otherwise
\* returns None (expect false) or raises IndexError (expect true). current
\* returns the element at the index, or raises IndexError at or past the end.
C9_AdvanceCurrentContract ==
  LET n == Len(_list) IN
    /\ call.op = "advance" =>
         /\ _index = call.from + 1
         /\ call.from + 1 < n =>
              call.exc = NoExc /\ call.value = _list[call.from + 2]
         /\ call.from + 1 >= n =>
              IF call.expect THEN call.exc = "IndexError"
              ELSE call.exc = NoExc /\ call.value = None
    /\ call.op = "current" =>
         /\ _index = call.from
         /\ call.from < n => call.exc = NoExc /\ call.value = _list[call.from + 1]
         /\ call.from >= n => call.exc = "IndexError"

\* C9 witness: an advance(expect=True) past the end has raised, and the index
\* has moved all the same.
C9_Witness ==
  /\ call.op = "advance"
  /\ call.expect
  /\ call.exc = "IndexError"
  /\ call.from >= 1

(***************************************************************************)
(* Claims about parse_parameters                                           *)
(***************************************************************************)
\* The names, kinds and default texts of a sequence of Arguments
ArgNames(as) == [i \in 1..Len(as) |-> ToStr(as[i].name)]
ArgKinds(as) == [i \in 1..Len(as) |-> as[i].type]

\* C1: for (a, b=1, *args, c, d=2, **kwargs) parse_parameters returns exactly
\* six Arguments named a, b, args, c, d, kwargs, of kinds positional,
\* positional, positional-remainder, keyword-only, keyword-only,
\* keyword-remainder, with b's default "1" and d's default "2".
C1_GeneralList ==
  (parameters = ParametersNode(GeneralParams, FALSE) /\ args # None) =>
    /\ args.exc = NoExc
    /\ ArgNames(args.value) = <<"a", "b", "args", "c", "d", "kwargs">>
    /\ ArgKinds(args.value) =
         <<"POS", "POS", "POS_REMAINDER", "KW_ONLY", "KW_ONLY", "KW_REMAINDER">>
    /\ args.value[2].default = Expression(<<"1">>)
    /\ args.value[5].default = Expression(<<"2">>)

\* Where a kind stands in positional* (remainder | separator)? keyword-only*
\* keyword-remainder?
KindRank(kind) ==
  CASE kind = "POS" -> 0
    [] kind \in {"POS_REMAINDER", "KW_SEPARATOR"} -> 1
    [] kind = "KW_ONLY" -> 2
    [] kind = "KW_REMAINDER" -> 3

KindsInOrder(kinds) ==
  /\ \A i \in 1..Len(kinds), j \in 1..Len(kinds) :
       i < j => KindRank(kinds[i]) <= KindRank(kinds[j])
  /\ Cardinality({i \in 1..Len(kinds) : KindRank(kinds[i]) = 1}) <= 1
  /\ Cardinality({i \in 1..Len(kinds) : KindRank(kinds[i]) = 3}) <= 1
  /\ \A i \in 1..Len(kinds) : kinds[i] = "KW_REMAINDER" => i = Len(kinds)

\* C2: for every valid parameter list (a trailing comma included) the kinds
\* returned read positional*, at most one remainder or separator,
\* keyword-only*, at most one keyword-remainder, which is last; and only a
\* separator has an empty name.
C2_KindOrder ==
  args # None =>
    /\ args.exc = NoExc
    /\ KindsInOrder(ArgKinds(args.value))
    /\ \A i \in 1..Len(args.value) :
         args.value[i].name = <<>> => args.value[i].type = "KW_SEPARATOR"

\* The children of a `parameters` node between its parentheses
Inner(params) == SubSeq(params.children, 2, Len(params.children) - 1)

\* C7: without a typedargslist node, `()` gives no Argument, `(x)` gives one
\* positional Argument x without annotation or default, and `(x: T)` gives
\* one positional Argument x with annotation text T and no default.
C7_NoWrapperList ==
  (args # None /\ find("typedargslist", parameters.children) = None) =>
    LET inner == Inner(parameters) IN
      /\ args.exc = NoExc
      /\ inner = <<>> => args.value = <<>>
      /\ (Len(inner) = 1 /\ inner[1].type = "NAME") =>
           args.value = <<Argument(inner[1].value, None, None, "POS")>>
      /\ (Len(inner) = 1 /\ inner[1].type = "tname") =>
           args.value = <<Argument(inner[1].children[1].value,
                                   Expression(inner[1].children[3].value),
                                   None, "POS")>>

\* C7 witness: a single annotated parameter has been parsed
C7_Witness ==
  /\ args # None
  /\ find("typedargslist", parameters.children) = None
  /\ find("tname", parameters.children) # None
  /\ Len(args.value) = 1

(***************************************************************************)
(* Claims about parse_file: statements, classes, declarations              *)
(***************************************************************************)
\* parse_file returned a Module
Parsed == module # None /\ module.exc = NoExc

\* The number of objects a statement creates under its parent
Entities(d) ==
  IF d.form = "assign" THEN Len(d.targets)
  ELSE IF d.form \in {"def", "class"} THEN 1
  ELSE 0

RECURSIVE EntitiesOf(_)
EntitiesOf(body) ==
  IF body = <<>> THEN 0 ELSE Entities(Head(body)) + EntitiesOf(Tail(body))

\* The text of the i-th target
TargetText(targets, i) ==
  IF targets[i] = "attr" THEN "o.p"
  ELSE IF targets[i] = "meta" THEN "__metaclass__"
  ELSE ToStr(TargetNames[i])

\* In StmtSources the assignment is the last statement of the module, or of
\* the class that is the only statement of the module
InClass == code.body[Len(code.body)].form = "class"
Siblings == IF InClass THEN code.body[Len(code.body)].body ELSE code.body
Subject == Siblings[Len(Siblings)]

\* The members of the assignment's parent, and those of them that come after
\* what the statements before the assignment create
Owner == IF InClass THEN module.ret.members[1].members ELSE module.ret.members
Produced ==
  SubSeq(Owner, EntitiesOf(SubSeq(Siblings, 1, Len(Siblings) - 1)) + 1, Len(Owner))

\* C6: an expression statement with k >= 1 top-level `=` tokens creates
\* exactly k Data objects under its parent, one per target in source order,
\* named by the target's text, all with the Expression of the text after the
\* last `=` and with one and the same docstring; a statement without a
\* top-level `=` creates no Data object and None is returned for it.
C6_OneDataPerTarget ==
  Parsed =>
    /\ Len(Produced) = Len(Subject.targets)
    /\ \A i \in 1..Len(Produced) :
         /\ Produced[i].kind = "Data"
         /\ ToStr(Produced[i].name) = TargetText(Subject.targets, i)
         /\ ToStr(Produced[i].expr.text) = "v + 1"
         /\ Produced[i].docstring = Produced[1].docstring
    /\ (Subject.targets = <<>> /\ ~InClass) => module.returned[Len(code.body)] = None

\* A chained assignment under a `#:` comment was parsed into two Data objects
C6_Witness ==
  /\ Parsed
  /\ Len(Subject.targets) = 2
  /\ Len(Produced) = 2
  /\ Produced[2].docstring # None

\* The line is a comment; it starts with the statement marker `#:`
IsComment(line) == startswith(strip(line), <<"#">>)
HasStatementMarker(line) == startswith(strip(line), <<"#", ":">>)

\* The comment run the lines end with: the lines from the first one on after
\* which every line is a comment
CommentRun(lines) ==
  LET starts == {i \in 1..Len(lines) : \A j \in i..Len(lines) : IsComment(lines[j])}
  IN  SubSeq(lines, CHOOSE i \in starts : \A j \in starts : i <= j, Len(lines))

\* A comment line without its marker and the blanks around it
Unmarked(line) ==
  lstrip(drop(strip(line), IF HasStatementMarker(line) THEN 2 ELSE 1))

\* The text of the comment run the lines end with, markers stripped
CommentText(lines) ==
  LET run == CommentRun(lines) IN
    strip(join([i \in 1..Len(run) |-> Unmarked(run[i])], NL))

\* C5: when the trivia before an assignment end with a comment line (one
\* newline between comment and assignment), every Data object of the
\* assignment has the text of the comment run, markers stripped, as its
\* docstring if that line starts with `#:`, and no docstring if it starts
\* with `#` only; when the trivia end with a blank line (two newlines or
\* more) there is no docstring whatever the marker.
C5_StatementDocstring ==
  Parsed =>
    LET lines == Subject.trivia
        n == Len(lines)
    IN  \A i \in 1..Len(Produced) :
          /\ (n >= 1 /\ HasStatementMarker(lines[n])) =>
               Produced[i].docstring = Str(CommentText(lines))
          /\ (n >= 1 /\ IsComment(lines[n]) /\ ~HasStatementMarker(lines[n])) =>
               Produced[i].docstring = None
          /\ (n >= 2 /\ strip(lines[n]) = <<>>) =>
               Produced[i].docstring = None

\* An assignment in a class body, under a generic comment line followed by a
\* `#:` line, has the docstring of both lines
C5_Witness ==
  /\ Parsed
  /\ InClass
  /\ Len(Produced) >= 1
  /\ Len(Subject.trivia) >= 2
  /\ Subject.trivia[Len(Subject.trivia)] = <<"#", ":", "a">>
  /\ Subject.trivia[Len(Subject.trivia) - 1] = <<"#", "b">>
  /\ Produced[1].docstring = Str(<<"b", NL, "a">>)

\* In ClassSources the class is the only statement of the module
TheClass == code.body[1]
ClassObject == module.ret.members[1]

\* The class body has an assignment with __metaclass__ among its targets
AssignsMetaclass(d) ==
  \E i \in 1..Len(d.body) :
    /\ d.body[i].form = "assign"
    /\ \E j \in 1..Len(d.body[i].targets) : d.body[i].targets[j] = "meta"

HasEntry(d, kind) == \E i \in 1..Len(d.entries) : d.entries[i] = kind

\* C3: for a class without a metaclass= keyword whose body assigns
\* __metaclass__ (alone or as one target of a chained assignment), the Class
\* has metaclass Expression("Meta") and no member named __metaclass__.
C3_MetaclassPromoted ==
  (Parsed /\ ~HasEntry(TheClass, "metaclass") /\ AssignsMetaclass(TheClass)) =>
    /\ ClassObject.metaclass = Expression(W_Meta)
    /\ \A i \in 1..Len(ClassObject.members) :
         ClassObject.members[i].name # METACLASS_MEMBER

Unrecognized(d) == d.form \in {"pass", "string", "call", "if", "for", "with"}

\* The i-th statement of the module was handed to parse_declaration
Reached(i) ==
  i <= Len(module.returned) + (IF module.exc # NoExc THEN 1 ELSE 0)

\* C10 as stated: handed a node it does not recognize, parse_declaration
\* fails with a parse error instead of returning without an object.
C10_UnrecognizedRaises ==
  (/\ module # None
   /\ \E i \in 1..Len(code.body) : Reached(i) /\ Unrecognized(code.body[i])) =>
    module.exc = "ParseError"

\* C10, amended: handed a node it does not recognize, parse_declaration
\* returns None, creates no object and raises nothing; such nodes are
\* discarded silently, as imports are.
C10_UnrecognizedIgnored ==
  module # None =>
    /\ \A i \in 1..Len(code.body) :
         (Unrecognized(code.body[i]) /\ i <= Len(module.returned)) =>
           module.returned[i] = None
    /\ module.exc # NoExc =>
         /\ Len(module.returned) < Len(code.body)
         /\ ~Unrecognized(code.body[Len(module.returned) + 1])
    /\ Parsed => Len(module.ret.members) = EntitiesOf(code.body)

\* A module with a statement that is not recognized and one that creates an
\* object was parsed
C10_Witness ==
  /\ Parsed
  /\ \E i \in 1..Len(code.body) : Unrecognized(code.body[i])
  /\ Len(module.ret.members) >= 1

(***************************************************************************)
(* Claims about class definitions of other shapes                          *)
(***************************************************************************)
\* C13: a class header in parentheses with exactly one entry, which the tree
\* holds as a child of the classdef node without an arglist node around it,
\* gives bases == [Expression(B)] when the entry is the base B, and
\* metaclass == Expression(M) when it is `metaclass=M`.
C13_SingleEntryHeader ==
  (Parsed /\ Len(TheClass.entries) = 1 /\ ~TheClass.comma) =>
    /\ TheClass.entries[1] = "base" =>
         ClassObject.bases = <<Expression(BaseNames[1])>>
    /\ TheClass.entries[1] = "metaclass" =>
         ClassObject.metaclass = Expression(<<"M">>)

\* C14: parse_classdef returns a Class and raises nothing for every
\* classdef node, the one without a suite as well, whose body is a simple
\* statement on the header line (`class C: pass`).
C14_ClassWithoutSuite ==
  module # None =>
    /\ module.exc = NoExc
    /\ Len(module.ret.members) = 1
    /\ ClassObject.kind = "Class"

(***************************************************************************)
(* Claims about the docstring of a body                                    *)
(***************************************************************************)
\* In StmtSources the assignment is the first statement of its body: of the
\* module, or of the class
FirstInBody == Len(Siblings) = 1

\* The docstring of the body the assignment is in
BodyDocstring ==
  IF InClass THEN module.ret.members[1].docstring ELSE module.ret.docstring

\* The lines up to the last one that is not blank
UpToLastText(lines) ==
  LET texts == {i \in 1..Len(lines) : strip(lines[i]) # <<>>} IN
    IF texts = {} THEN <<>>
    ELSE SubSeq(lines, 1, CHOOSE i \in texts : \A j \in texts : j <= i)

\* The docstring of a body whose first statement comes after the lines: the
\* text of the comment run they end with unless its last line has the
\* statement marker, nothing if they do not end with a comment
BlockDocstring(lines) ==
  IF /\ lines # <<>>
     /\ IsComment(lines[Len(lines)])
     /\ ~HasStatementMarker(lines[Len(lines)])
    THEN Str(CommentText(lines))
    ELSE None

\* C12 as stated: the docstring of a body whose first statement is not a
\* string is the comment run on the lines right above that statement,
\* markers stripped; it is None when the nearest line of the run starts with
\* `#:`, and None when the line right above the statement is blank.
C12_AdjacentCommentRun ==
  (Parsed /\ FirstInBody) => BodyDocstring = BlockDocstring(Subject.trivia)

\* C12, amended: the blank lines between the first statement and the
\* nearest comment line are skipped; the docstring is the comment run
\* nearest the statement, markers stripped, ended by a blank line above it;
\* it is None when the nearest line of the run starts with `#:`, and None
\* when there is no comment line before the statement.
C12_NearestCommentRun ==
  (Parsed /\ FirstInBody) =>
    BodyDocstring = BlockDocstring(UpToLastText(Subject.trivia))

\* A class body of a comment, a blank line and an assignment: the comment is
\* the docstring of the class
C12_Witness ==
  /\ Parsed
  /\ FirstInBody
  /\ InClass
  /\ Len(Subject.trivia) = 3
  /\ Subject.trivia[1] = <<"#", ":", "a">>
  /\ Subject.trivia[2] = <<"#", "b">>
  /\ Subject.trivia[3] = <<>>
  /\ BodyDocstring = Str(<<"a", NL, "b">>)

(***************************************************************************)
(* Claims about repeated parses                                            *)
(***************************************************************************)
\* Two parses were handed the same tree, file name and module name
SameArguments(a, b) ==
  /\ a.code = b.code
  /\ a.filename = b.filename
  /\ a.module_name = b.module_name

====
